---- MODULE Spec2Model ----
(***************************************************************************)
(* Model of screen_operation_server/operations.py: the five screen and     *)
(* window operations served by main.py, over an abstract display (the      *)
(* monitor enumeration of mss and the pixels it grabs) and an abstract     *)
(* window system (Win32, X11 or Quartz, selected by SYSTEM).               *)
(***************************************************************************)
EXTENDS Integers, Sequences, FiniteSets, TLC

VARIABLES
    SYSTEM,      \* operations.py:10  platform.system(), fixed for the process
    monitors,    \* sct.monitors: <<union, physical 1, ..., physical n>>
    frame,       \* the content the display shows now (changes over time)
    windows,     \* the window system: window id -> window, or NoWindow
    mssOpen,     \* mss capture contexts open now
    x11Open,     \* Xlib Display connections open now
    grabLog,     \* the regions handed to sct.grab by the last operation
    everListed,  \* the ids some get_window_list has returned to the client
    result       \* what the last operation returned or raised

vars == <<SYSTEM, monitors, frame, windows, mssOpen, x11Open, grabLog,
          everListed, result>>

----------------------------------------------------------------------------
(* Bounds of the model *)

MaxPhysical == 2     \* physical monitors
MaxDim == 2          \* width and height of a monitor, in pixels
MaxWindows == 1      \* window ids the window system hands out
MaxOpen == 2         \* Display connections counted before the model stops

Systems == {"Linux", "Windows", "Darwin", "FreeBSD"}
\* display contents; none of them shows the black of an empty canvas
Frames == {1, 2}
\* window extents: collapsed (minimized) and not
WinDims == {0, 1}
Dims == 1..MaxDim
WindowIds == 1..MaxWindows
\* ids a client may pass: every id handed out, and one never handed out
ClientIds == 0..MaxWindows
\* monitor numbers a client may pass: in range, beyond, and negative
MonitorNumbers == (0 - (MaxPhysical + 2))..(MaxPhysical + 1)
Titles == {"", "Doc"}
Owners == {"", "App"}

----------------------------------------------------------------------------
(* Helpers *)

RECURSIVE SumSeq(_)
SumSeq(s) == IF s = <<>> THEN 0 ELSE Head(s) + SumSeq(Tail(s))

RECURSIVE MaxSeq(_)
MaxSeq(s) ==
    IF Len(s) = 1 THEN s[1]
    ELSE LET r == MaxSeq(Tail(s)) IN IF s[1] > r THEN s[1] ELSE r

Coords(w, h) == (0..(w - 1)) \X (0..(h - 1))

----------------------------------------------------------------------------
(* The display *)

\* The raw pixel the display holds at virtual-desktop position (x, y) while
\* it shows content f, in the capture library's channel order B, G, R, X.
ScreenBgrx(f, x, y) == <<x, y, f, 255>>

\* sct.grab(monitor): a ScreenShot of the requested size holding the raw
\* pixels of the region as the display shows them at the time of the grab.
Grab(m, f) ==
    [size |-> <<m.width, m.height>>,
     bgra |-> [p \in Coords(m.width, m.height) |->
                  ScreenBgrx(f, m.left + p[1], m.top + p[2])]]

\* Image.frombytes("RGB", size, data, "raw", "BGRX"): an RGB image of the
\* given size decoded from BGRX data.
FromBytes(size, bgra) ==
    [width |-> size[1], height |-> size[2],
     px |-> [p \in Coords(size[1], size[2]) |->
                <<bgra[p][3], bgra[p][2], bgra[p][1]>>]]

Black == <<0, 0, 0>>

\* Image.new("RGB", (w, h)): a black canvas.
NewImage(w, h) ==
    [width |-> w, height |-> h, px |-> [p \in Coords(w, h) |-> Black]]

\* canvas.paste(img, (x_offset, 0)): img's pixels replace the canvas's in
\* the box they cover, clipped to the canvas.
Paste(canvas, img, x_offset) ==
    [canvas EXCEPT !.px =
        [p \in Coords(canvas.width, canvas.height) |->
            IF /\ p[1] >= x_offset /\ p[1] < x_offset + img.width
               /\ p[2] < img.height
            THEN img.px[<<p[1] - x_offset, p[2]>>]
            ELSE canvas.px[p]]]

NoImage == [width |-> 0, height |-> 0, px |-> <<>>]
NoInfo == [monitor_count |-> 0, monitors |-> <<>>]

Ok(op, arg) ==
    [op |-> op, arg |-> arg, status |-> "ok", error |-> "",
     image |-> NoImage, info |-> NoInfo, list |-> <<>>]

Raise(op, arg, err) ==
    [op |-> op, arg |-> arg, status |-> "error", error |-> err,
     image |-> NoImage, info |-> NoInfo, list |-> <<>>]

----------------------------------------------------------------------------
(* The monitor enumeration *)

\* Physical monitors of the given sizes side by side on the virtual
\* desktop, the first at the given left edge.
RECURSIVE Place(_, _)
Place(sizes, left) ==
    IF sizes = <<>> THEN <<>>
    ELSE <<[left |-> left, top |-> 0,
            width |-> sizes[1][1], height |-> sizes[1][2]]>>
         \o Place(Tail(sizes), left + sizes[1][1])

Reverse(s) == [i \in 1..Len(s) |-> s[Len(s) + 1 - i]]

\* The union entry, the bounding box of the physical monitors, and then the
\* physical monitors in the order the library reports them.
UnionOf(phys) ==
    [left |-> 0, top |-> 0,
     width |-> SumSeq([i \in 1..Len(phys) |-> phys[i].width]),
     height |-> MaxSeq([i \in 1..Len(phys) |-> phys[i].height])]

Enumeration(sizes) ==
    LET phys == Place(sizes, 0) IN <<UnionOf(phys)>> \o phys

\* The same monitors reported right to left: the reported order need not be
\* the order on the desktop.
EnumerationReversed(sizes) ==
    LET phys == Place(sizes, 0) IN <<UnionOf(phys)>> \o Reverse(phys)

\* What mss can report: the union entry alone, or the union entry followed
\* by one to MaxPhysical physical monitors.
Enumerations ==
    {<<[left |-> 0, top |-> 0, width |-> w, height |-> h]>> :
        w \in Dims, h \in Dims}
    \cup UNION {{Enumeration(sizes) : sizes \in [1..n -> Dims \X Dims]} :
                  n \in 1..MaxPhysical}
    \cup UNION {{EnumerationReversed(sizes) :
                    sizes \in [1..n -> Dims \X Dims]} : n \in 2..MaxPhysical}

\* seq[n] as Python evaluates it on a list: a negative n counts from the
\* end, and only n outside [-len, len) raises IndexError.
IndexInRange(seq, n) == n >= 0 - Len(seq) /\ n < Len(seq)
PyIndex(seq, n) == IF n >= 0 THEN seq[n + 1] ELSE seq[Len(seq) + n + 1]

----------------------------------------------------------------------------
(* operations.py: the screen operations, as functions of what they read *)

\* _capture_to_base64(sct, monitor), the display showing f.  The PNG and
\* base64 encodings are lossless, so the payload is held as the image.
\* Grabbing an empty region is a fault of the capture library.
CaptureToBase64(op, arg, m, f) ==
    IF m.width <= 0 \/ m.height <= 0
    THEN Raise(op, arg, "ScreenShotError")
    ELSE LET sct_img == Grab(m, f) IN
         [Ok(op, arg) EXCEPT !.image = FromBytes(sct_img.size, sct_img.bgra)]

\* faulty variant: the union entry subtracted whatever the length
MonitorCountMinusOne(mons) == Len(mons) - 1

MonitorCount(mons) == IF Len(mons) > 1 THEN Len(mons) - 1 ELSE 1

GetScreenInfo(mons) ==
    [Ok("get_screen_info", 0) EXCEPT !.info =
        [monitor_count |-> MonitorCount(mons),
         monitors |-> [k \in 1..Len(mons) |->
                          [id |-> k - 1, width |-> mons[k].width,
                           height |-> mons[k].height, top |-> mons[k].top,
                           left |-> mons[k].left]]]]

CaptureScreenByNumber(mons, n, f) ==
    IF IndexInRange(mons, n)
    THEN CaptureToBase64("capture_screen_by_number", n, PyIndex(mons, n), f)
    ELSE Raise("capture_screen_by_number", n, "MonitorNotFound")

\* faulty variant: the union entry not skipped
MonitorsToCaptureAll(mons) == mons

\* sct.monitors[1:]
MonitorsToCapture(mons) == SubSeq(mons, 2, Len(mons))

\* The list comprehension of capture_all_screens: for the k-th monitor the
\* size comes from one grab and the data from the next one.  The display
\* shows f0 at the first grab of the call and fs[k] at the data grab of the
\* k-th monitor; a size grab sees what the grab before it saw.
GrabbedImages(to_capture, f0, fs) ==
    [k \in 1..Len(to_capture) |->
        FromBytes(Grab(to_capture[k], IF k = 1 THEN f0 ELSE fs[k - 1]).size,
                  Grab(to_capture[k], fs[k]).bgra)]

\* faulty variant: the canvas as wide as the widest image
TotalWidthWidest(images) == MaxSeq([k \in 1..Len(images) |-> images[k].width])

TotalWidth(images) == SumSeq([k \in 1..Len(images) |-> images[k].width])
MaxHeight(images) == MaxSeq([k \in 1..Len(images) |-> images[k].height])

\* faulty variant: the offset not advanced
NextOffsetStuck(x_offset, img) == x_offset

\* x_offset += img.width
NextOffset(x_offset, img) == x_offset + img.width

\* The paste loop: images[k..] pasted from x_offset on.
RECURSIVE PasteAll(_, _, _, _)
PasteAll(canvas, images, k, x_offset) ==
    IF k > Len(images) THEN canvas
    ELSE PasteAll(Paste(canvas, images[k], x_offset), images, k + 1,
                  NextOffset(x_offset, images[k]))

Stitch(images) ==
    PasteAll(NewImage(TotalWidth(images), MaxHeight(images)), images, 1, 0)

\* The regions capture_all_screens hands to sct.grab, in order.
AllScreensGrabs(mons) ==
    LET to_capture == MonitorsToCapture(mons) IN
    IF to_capture = <<>> THEN <<mons[1]>>
    ELSE [j \in 1..(2 * Len(to_capture)) |-> to_capture[(j + 1) \div 2]]

CaptureAllScreens(mons, f0, fs) ==
    LET to_capture == MonitorsToCapture(mons) IN
    IF to_capture = <<>>
    THEN CaptureToBase64("capture_all_screens", 0, mons[1], f0)
    ELSE [Ok("capture_all_screens", 0) EXCEPT
             !.image = Stitch(GrabbedImages(to_capture, f0, fs))]

----------------------------------------------------------------------------
(* The window system *)

NoWindow ==
    [exists |-> FALSE, visible |-> FALSE, name |-> "", wm_name |-> "",
     owner |-> "", layer |-> 0, x |-> 0, y |-> 0, width |-> 0, height |-> 0]

\* The windows a platform can hold.  name is the window's own title
\* (GetWindowText, _NET_WM_NAME, kCGWindowName); wm_name is the legacy X11
\* title; owner and layer are what Quartz reports of the owning application.
WindowsOf(sys) ==
    [exists : {TRUE}, visible : BOOLEAN, name : Titles,
     wm_name : IF sys = "Linux" THEN Titles ELSE {""},
     owner : IF sys = "Darwin" THEN Owners ELSE {""},
     layer : IF sys = "Darwin" THEN {0, 1} ELSE {0},
     x : {0}, y : {0}, width : WinDims, height : WinDims]

\* _get_window_list_windows: the test of the EnumWindows callback
ListedWindows(w) ==
    w.exists /\ w.visible /\ w.name # "" /\ w.width > 0 /\ w.height > 0

\* _get_window_list_linux: _NET_WM_NAME, or WM_NAME when that is empty
TitleLinux(w) == IF w.name # "" THEN w.name ELSE w.wm_name

ListedLinux(w) == w.exists /\ w.visible /\ TitleLinux(w) # ""

\* _get_window_list_macos: the f-string of owner and window name
TitleMacos(w) == w.owner \o " - " \o w.name

ListedMacos(w) == w.exists /\ w.visible /\ w.layer = 0 /\ w.owner # ""

Listed(sys, w) ==
    CASE sys = "Linux" -> ListedLinux(w)
      [] sys = "Windows" -> ListedWindows(w)
      [] sys = "Darwin" -> ListedMacos(w)
      [] OTHER -> FALSE

TitleOf(sys, w) ==
    CASE sys = "Linux" -> TitleLinux(w)
      [] sys = "Darwin" -> TitleMacos(w)
      [] OTHER -> w.name

Entry(sys, id, w) ==
    [id |-> id, title |-> TitleOf(sys, w), x |-> w.x, y |-> w.y,
     width |-> w.width, height |-> w.height]

\* The enumeration loop over the ids from..MaxWindows, in the platform's
\* order (here: ascending id).
RECURSIVE Enumerate(_, _, _)
Enumerate(sys, wins, from) ==
    IF from > MaxWindows THEN <<>>
    ELSE (IF Listed(sys, wins[from])
          THEN <<Entry(sys, from, wins[from])>> ELSE <<>>)
         \o Enumerate(sys, wins, from + 1)

Supported(sys) == sys \in {"Linux", "Windows", "Darwin"}

GetWindowList(sys, wins) ==
    IF Supported(sys)
    THEN [Ok("get_window_list", 0) EXCEPT !.list = Enumerate(sys, wins, 1)]
    ELSE Raise("get_window_list", 0, "NotImplementedError")

\* The platform lookup of capture_window: GetWindowRect, get_geometry and
\* translate_coords, or CGWindowListCopyWindowInfo for the one window.
\* Each asks the window system at the time of the call.
\* faulty variant: any id the window system has handed out resolves, whether or not
\* its window still exists
WindowFoundStale(wins, id) == id \in DOMAIN wins

WindowFound(wins, id) == id \in DOMAIN wins /\ wins[id].exists

WindowRect(wins, id) ==
    [left |-> wins[id].x, top |-> wins[id].y,
     width |-> wins[id].width, height |-> wins[id].height]

CaptureWindow(sys, wins, id, f) ==
    IF ~Supported(sys) THEN Raise("capture_window", id, "NotImplementedError")
    ELSE IF ~WindowFound(wins, id)
    THEN Raise("capture_window", id, "WindowNotFound")
    ELSE CaptureToBase64("capture_window", id, WindowRect(wins, id), f)

\* The regions capture_window hands to sct.grab.
CaptureWindowGrabs(sys, wins, id) ==
    IF Supported(sys) /\ WindowFound(wins, id)
    THEN <<WindowRect(wins, id)>> ELSE <<>>

\* with mss.mss() as sct: the context is opened on entry and closed on
\* exit, also when the body raises.
WithMss(open) == (open + 1) - 1

\* d = display.Display() of the two Linux functions: opened, and closed
\* on no path.
DisplayOpened(sys, open) == IF sys = "Linux" THEN open + 1 ELSE open

----------------------------------------------------------------------------
(* Initial states *)

Start == [op |-> "start", arg |-> 0, status |-> "ok", error |-> "",
          image |-> NoImage, info |-> NoInfo, list |-> <<>>]

InitCommon ==
    /\ windows = [id \in WindowIds |-> NoWindow]
    /\ mssOpen = 0
    /\ x11Open = 0
    /\ grabLog = <<>>
    /\ everListed = {}
    /\ result = Start

\* every monitor enumeration; the screen operations do not read SYSTEM
InitScreen ==
    /\ InitCommon
    /\ SYSTEM = "Linux"
    /\ monitors \in Enumerations
    /\ frame \in Frames

\* every platform, with one physical monitor of one pixel and a display
\* that keeps its content
InitWindow ==
    /\ InitCommon
    /\ SYSTEM \in Systems
    /\ monitors = Enumeration(<<<<1, 1>>>>)
    /\ frame = 1

----------------------------------------------------------------------------
(* The environment *)

DisplayChange ==
    /\ frame' \in Frames \ {frame}
    /\ UNCHANGED <<SYSTEM, monitors, windows, mssOpen, x11Open, grabLog,
                   everListed, result>>

OpenWindow ==
    \E id \in WindowIds, w \in WindowsOf(SYSTEM) :
        /\ ~windows[id].exists
        /\ windows' = [windows EXCEPT ![id] = w]
        /\ UNCHANGED <<SYSTEM, monitors, frame, mssOpen, x11Open, grabLog,
                       everListed, result>>

CloseWindow ==
    \E id \in WindowIds :
        /\ windows[id].exists
        /\ windows' = [windows EXCEPT ![id] = NoWindow]
        /\ UNCHANGED <<SYSTEM, monitors, frame, mssOpen, x11Open, grabLog,
                       everListed, result>>

----------------------------------------------------------------------------
(* The operations (main.py: the tools of the server) *)

get_screen_info ==
    /\ result' = GetScreenInfo(monitors)
    /\ mssOpen' = WithMss(mssOpen)
    /\ grabLog' = <<>>
    /\ UNCHANGED <<SYSTEM, monitors, frame, windows, x11Open, everListed>>

capture_screen_by_number ==
    \E n \in MonitorNumbers :
        /\ result' = CaptureScreenByNumber(monitors, n, frame)
        /\ mssOpen' = WithMss(mssOpen)
        /\ grabLog' = IF IndexInRange(monitors, n)
                      THEN <<PyIndex(monitors, n)>> ELSE <<>>
        /\ UNCHANGED <<SYSTEM, monitors, frame, windows, x11Open, everListed>>

\* The display may change during the call: it shows frame at the first
\* grab and fs[k] at the data grab of the k-th physical monitor, and the
\* last of them is what it shows afterwards.
capture_all_screens ==
    LET n == Len(MonitorsToCapture(monitors)) IN
    \E fs \in [1..n -> Frames] :
        /\ result' = CaptureAllScreens(monitors, frame, fs)
        /\ frame' = IF n = 0 THEN frame ELSE fs[n]
        /\ mssOpen' = WithMss(mssOpen)
        /\ grabLog' = AllScreensGrabs(monitors)
        /\ UNCHANGED <<SYSTEM, monitors, windows, x11Open, everListed>>

get_window_list ==
    /\ SYSTEM = "Linux" => x11Open < MaxOpen
    /\ result' = GetWindowList(SYSTEM, windows)
    /\ x11Open' = DisplayOpened(SYSTEM, x11Open)
    /\ everListed' = everListed \cup
           {result'.list[k].id : k \in 1..Len(result'.list)}
    /\ grabLog' = <<>>
    /\ UNCHANGED <<SYSTEM, monitors, frame, windows, mssOpen>>

capture_window ==
    \E id \in ClientIds :
        /\ SYSTEM = "Linux" => x11Open < MaxOpen
        /\ result' = CaptureWindow(SYSTEM, windows, id, frame)
        /\ x11Open' = DisplayOpened(SYSTEM, x11Open)
        /\ mssOpen' = IF Supported(SYSTEM) /\ WindowFound(windows, id)
                      THEN WithMss(mssOpen) ELSE mssOpen
        /\ grabLog' = CaptureWindowGrabs(SYSTEM, windows, id)
        /\ UNCHANGED <<SYSTEM, monitors, frame, windows, everListed>>

NextScreen ==
    \/ DisplayChange
    \/ get_screen_info
    \/ capture_screen_by_number
    \/ capture_all_screens

NextWindow ==
    \/ OpenWindow
    \/ CloseWindow
    \/ get_window_list
    \/ capture_window

\* the screen operations over every monitor enumeration
SpecScreen == InitScreen /\ [][NextScreen]_vars

\* the window operations over every window system, on one monitor
SpecWindow == InitWindow /\ [][NextWindow]_vars

----------------------------------------------------------------------------
(* Properties *)

\* the physical monitors: the entries after the union entry
Physical == [i \in 1..(Len(monitors) - 1) |-> monitors[i + 1]]
ListedIds(list) == {list[k].id : k \in 1..Len(list)}
\* the window of this id exists now
Exists(id) == id \in WindowIds /\ windows[id].exists
\* the window's own title, as its platform resolves it
OwnTitle(sys, w) ==
    IF sys = "Linux" THEN (IF w.name # "" THEN w.name ELSE w.wm_name)
    ELSE w.name
\* where the i-th image belongs: after the images before it
PasteOffset(i) == SumSeq([j \in 1..(i - 1) |-> Physical[j].width])
ColumnOwners(x) ==
    {i \in 1..Len(Physical) :
        PasteOffset(i) <= x /\ x < PasteOffset(i) + Physical[i].width}

\* C1: capture_screen_by_number(n) returns an image for every n in
\* [0, len(monitors)) and fails with the monitor-not-found error, returning
\* no image, for every other n, the negative ones included.
C1_OutOfRangeFails ==
    result.op = "capture_screen_by_number" =>
        IF result.arg >= 0 /\ result.arg < Len(monitors)
        THEN result.status = "ok" /\ result.image # NoImage
        ELSE /\ result.status = "error"
             /\ result.error = "MonitorNotFound"
             /\ result.image = NoImage

\* C2: when capture_window resolves its id to a rectangle of zero (or
\* negative) width or height, it fails with InvalidRegion and hands no
\* region to sct.grab.
C2_EmptyRegionRejected ==
    [][(/\ capture_window
        /\ Supported(SYSTEM)
        /\ Exists(result'.arg)
        /\ \/ windows[result'.arg].width <= 0
           \/ windows[result'.arg].height <= 0)
       => (/\ result'.status = "error"
           /\ result'.error = "InvalidRegion"
           /\ grabLog' = <<>>)]_vars

\* C3: after every operation, successful or failed, no mss capture context
\* and no X11 Display connection is still open.
C3_NoHandleLeft == mssOpen + x11Open = 0

\* C4: with n >= 1 physical monitors, the image capture_all_screens returns
\* is as wide as the sum of their widths and as high as the highest of them.
C4_StitchedSize ==
    (result.op = "capture_all_screens" /\ Len(Physical) >= 1) =>
        /\ result.status = "ok"
        /\ result.image.width =
               SumSeq([i \in 1..Len(Physical) |-> Physical[i].width])
        /\ result.image.height =
               MaxSeq([i \in 1..Len(Physical) |-> Physical[i].height])
        /\ DOMAIN result.image.px =
               Coords(result.image.width, result.image.height)

C4_Witness ==
    /\ result.op = "capture_all_screens"
    /\ result.status = "ok"
    /\ Len(Physical) = 2
    /\ Physical[1].height # Physical[2].height
    /\ result.image.width = Physical[1].width + Physical[2].width

\* C5: on a single-monitor system (the union entry alone, or the union entry
\* and one physical monitor of the same rectangle), capture_all_screens
\* returns the very image capture_screen_by_number(0) returns of the display
\* as the call left it: same dimensions, same pixel at every position.
C5_SingleMonitorSameAsUnion ==
    [][(Len(monitors) <= 2 /\ capture_all_screens)
       => (/\ result'.status = "ok"
           /\ result'.image =
                  CaptureScreenByNumber(monitors', 0, frame').image)]_vars

C5_Witness ==
    /\ result.op = "capture_all_screens"
    /\ result.status = "ok"
    /\ Len(monitors) = 2
    /\ result.image.width = monitors[1].width
    /\ result.image = CaptureScreenByNumber(monitors, 0, frame).image

\* C6: capture_window decides on the windows that exist when it is called:
\* it succeeds only for an id whose window exists then, and for an id that
\* was listed before and whose window has been closed since it fails with
\* the window-not-found error and returns no image.
C6_LookupAtCaptureTime ==
    [][capture_window
       => (/\ result'.status = "ok" => Exists(result'.arg)
           /\ (result'.arg \in everListed /\ ~Exists(result'.arg))
              => (/\ result'.status = "error"
                  /\ result'.error = "WindowNotFound"
                  /\ result'.image = NoImage))]_vars

C6_Witness ==
    /\ result.op = "capture_window"
    /\ result.arg \in everListed
    /\ ~Exists(result.arg)
    /\ result.status = "error"
    /\ result.error = "WindowNotFound"

\* C7: on every platform path, every entry get_window_list returns has a
\* non-empty title, and no window whose own title is empty or unresolvable
\* is among the entries.
C7_NoUntitledWindowListed ==
    [][(get_window_list /\ result'.status = "ok")
       => (/\ \A k \in 1..Len(result'.list) : result'.list[k].title # ""
           /\ \A id \in WindowIds :
                 (windows[id].exists /\ OwnTitle(SYSTEM, windows[id]) = "")
                 => id \notin ListedIds(result'.list))]_vars

\* C8: get_screen_info counts the physical monitors: L - 1 for an enumeration
\* of length L > 1, and 1 on a single-monitor system, reported as L = 1 or as
\* L = 2; the monitors list has L entries, each with its index as id.
C8_MonitorCount ==
    result.op = "get_screen_info" =>
        LET L == Len(monitors)
            info == result.info
        IN /\ L > 1 => info.monitor_count = L - 1
           /\ L \in {1, 2} => info.monitor_count = 1
           /\ Len(info.monitors) = L
           /\ \A k \in 1..L :
                 /\ info.monitors[k].id = k - 1
                 /\ info.monitors[k].width = monitors[k].width
                 /\ info.monitors[k].height = monitors[k].height

C8_Witness ==
    /\ result.op = "get_screen_info"
    /\ Len(monitors) = 1
    /\ result.info.monitor_count = 1
    /\ Len(result.info.monitors) = 1

\* C9: with n >= 1 physical monitors, the i-th image of capture_all_screens
\* lies at the x-offset that is the sum of the widths of the images before
\* it, and at y-offset 0: every column of the canvas belongs to exactly one
\* image, the columns are exactly [0, sum of widths), each pixel within its
\* image's height is that image's pixel, and the pixels left black are those
\* below an image shorter than the canvas.
C9_Placement ==
    (result.op = "capture_all_screens" /\ Len(Physical) >= 1) =>
        LET img == result.image IN
        /\ DOMAIN img.px = Coords(PasteOffset(Len(Physical) + 1), img.height)
        /\ \A p \in DOMAIN img.px :
              /\ Cardinality(ColumnOwners(p[1])) = 1
              /\ \A i \in ColumnOwners(p[1]) :
                    IF p[2] < Physical[i].height
                    THEN /\ img.px[p][1] \in Frames
                         /\ img.px[p][2] = Physical[i].top + p[2]
                         /\ img.px[p][3] =
                                Physical[i].left + (p[1] - PasteOffset(i))
                    ELSE img.px[p] = Black

C9_Witness ==
    /\ result.op = "capture_all_screens"
    /\ Len(Physical) = 2
    /\ Physical[1].left > 0
    /\ Physical[1].height < Physical[2].height
    /\ result.image.px[<<0, Physical[1].height>>] = Black
    /\ result.image.px[<<Physical[1].width, 0>>][3] = Physical[2].left

\* C10: in one capture_all_screens call with n >= 1 physical monitors, each
\* physical monitor is handed to sct.grab exactly once, in enumeration order.
C10_OneGrabPerMonitor ==
    (result.op = "capture_all_screens" /\ Len(Physical) >= 1) =>
        grabLog = Physical

====
